---- MODULE Spec2Model ----
(***************************************************************************)
(* Model of server.py: a chat proxy that keeps a per-session transcript in *)
(* one SQLite table `messages`, rebuilds a prompt from the most recent     *)
(* rows and stores the provider's reply.                                   *)
(*                                                                         *)
(* Encodings.                                                              *)
(*  - Optional[x] is a set with at most one element: None == {} and a      *)
(*    present value v is {v}.                                              *)
(*  - A text is a sequence of tokens; the tokens " " and "\n" are            *)
(*    whitespace, every other token is a piece of text that neither starts *)
(*    nor ends with whitespace.  str.strip() removes the leading and       *)
(*    trailing whitespace tokens.                                          *)
(*  - Every store operation (one INSERT + commit, one SELECT) is one       *)
(*    atomic step; the handlers of concurrent requests interleave between  *)
(*    such steps.                                                          *)
(*  - ORDER BY created_at leaves the order of rows with equal created_at   *)
(*    unspecified: get_history is the SET of results the query may give.   *)
(*                                                                         *)
(* Specifications.                                                         *)
(*  - Spec: requests are handled one at a time by worker 1, with every     *)
(*    session id, history_limit and limit of the input sets, as time       *)
(*    passes.                                                              *)
(*  - SpecConc: one request per worker, the two arriving within one second *)
(*    and interleaving at every store operation.                           *)
(***************************************************************************)
EXTENDS Integers, Sequences, FiniteSets, TLC

\* ------------------------------------------------------------------ bounds
\* a request is let in one at a time only while the store holds fewer than
\* MaxStore rows
MaxStore == 4
\* time.time() takes the values 1..MaxClock
MaxClock == 2
\* at most MaxUuid session ids are minted
MaxUuid == 1

\* worker threads, each handling one request at a time; a request goes to
\* the first free worker
Workers == {1, 2}
\* session ids a client may send of its own accord ("" is the empty string)
ClientIds == {"", "s1"}
\* the ones sent while another request may be running
ConcurrentIds == {"s1"}
\* request texts
Texts == {<<" ", "b", " ">>}
\* the ones sent while another request may be running
ConcurrentTexts == {<<"a">>, <<" ", "b", " ">>}
\* history_limit values a client may send (None: explicit null)
HistoryLimits == {{}, {-1}, {0}, {1}, {2}}
\* the inputs of the retry runs
RetryIds == {"s1"}
RetryLimits == {{0}, {3}, {4}}
RetryQueryLimits == {{}}
\* the ones sent while another request may be running
ConcurrentLimits == {{}, {1}}
\* limit values of GET /history (None: the parameter is not given)
QueryLimits == {{}, {-1}, {0}, {1}, {2}}
\* the ones sent while another request may be running
ConcurrentQueryLimits == {{1}}
\* texts the provider may return
ProviderTexts == {<<"r">>}

\* ------------------------------------------------------- program constants
None == {}
Some(x) == {x}
Val(o) == CHOOSE x \in o : TRUE

\* the fixed seed text of start_session and chat
Greeting == <<"Hello! I'm ready to help. Ask me anything.">>
\* default of ChatRequest.history_limit and of the `or 10` fallbacks
DefaultHistoryLimit == 10
\* default of history()'s limit parameter
DefaultQueryLimit == 50

VARIABLES
    store,   \* the rows of table messages, in insertion (rowid) order
    clock,   \* int(time.time())
    nuuid,   \* how many session uuids have been minted
    issued,  \* the session ids the server has returned to clients
    req      \* per worker: the request it handles, its locals, its response

vars == <<store, clock, nuuid, issued, req>>

\* ------------------------------------------------------------ pure helpers
RECURSIVE Reverse(_)
\* reversed(rows)
Reverse(s) == IF s = <<>> THEN <<>> ELSE Append(Reverse(Tail(s)), Head(s))

\* the whitespace tokens
IsSpace(tok) == tok \in {" ", "\n"}

RECURSIVE LStrip(_)
LStrip(t) == IF t # <<>> /\ IsSpace(Head(t)) THEN LStrip(Tail(t)) ELSE t

\* str.strip(): drop leading and trailing whitespace
Strip(t) == Reverse(LStrip(Reverse(LStrip(t))))

\* str(uuid.uuid4()): the n-th identifier drawn; distinct draws differ
Uuid(n) == "u" \o ToString(n)

\* Python truthiness of an Optional[str] / Optional[int]
Truthy(o) == o # None /\ Val(o) # ""
TruthyInt(o) == o # None /\ Val(o) # 0

\* ----------------------------------------------------------- messages table
\* one row of table messages (server.py:44-50)
Row(mid, session_id, role, content, created_at) ==
    [id |-> mid, session_id |-> session_id, role |-> role,
     content |-> content, created_at |-> created_at]

\* a faulty save_message: the row is keyed by (session_id, role, created_at)
\* and written with INSERT OR REPLACE, so a second message of the same role in
\* the same second replaces the first
save_message_Replace(st, session_id, role, content, now) ==
    LET same == {i \in 1..Len(st) : /\ st[i].session_id = session_id
                                    /\ st[i].role = role
                                    /\ st[i].created_at = now}
    IN  IF same = {} THEN Append(st, Row(Len(st) + 1, session_id, role, content, now))
        ELSE [i \in 1..Len(st) |->
                IF i \in same THEN Row(st[i].id, session_id, role, content, now)
                ELSE st[i]]

\* a faulty save_message: the session_id column is bound to a fixed string
\* instead of the parameter
save_message_OneSession(st, session_id, role, content, now) ==
    Append(st, Row(Len(st) + 1, "s1", role, content, now))

\* INSERT ... ; commit.  The id is a fresh uuid4: no earlier row has it.
save_message(st, session_id, role, content, now) ==
    Append(st, Row(Len(st) + 1, session_id, role, content, now))

\* rowids of the rows WHERE session_id = ?
SessionRows(st, session_id) ==
    {i \in 1..Len(st) : st[i].session_id = session_id}

RECURSIVE SelectDesc(_, _, _)
\* ORDER BY created_at DESC LIMIT n over the rowids S: every sequence the
\* query may produce.  created_at never increases along it, rows of equal
\* created_at come in any order, and it stops after n rows; SQLite reads a
\* negative n as "no limit" (n - 1 then never reaches 0).
SelectDesc(st, S, n) ==
    IF S = {} \/ n = 0 THEN {<<>>}
    ELSE LET newest == {i \in S : \A j \in S : st[j].created_at <= st[i].created_at}
         IN  UNION {{<<i>> \o rest : rest \in SelectDesc(st, S \ {i}, n - 1)} :
                      i \in newest}

\* dict(r) of a selected row: role, content, created_at.  The id is not
\* selected by the query; it is carried along here only to tell turns
\* apart in the properties, and no action reads it.
Item(st, i) ==
    [id |-> st[i].id, role |-> st[i].role, content |-> st[i].content,
     created_at |-> st[i].created_at]

\* the results get_history(session_id, limit) may return, limit an integer:
\* the rows selected with LIMIT limit * 2, reversed
get_history(st, session_id, limit) ==
    {[k \in 1..Len(rows) |-> Item(st, Reverse(rows)[k])] :
        rows \in SelectDesc(st, SessionRows(st, session_id), limit * 2)}

\* ------------------------------------------------------------ prompt
\* one prompt line of chat(): f"User: {content}" / f"Assistant: {content}"
PromptLine(m) ==
    IF m.role = "user" THEN <<"User:", " ">> \o Strip(m.content)
    ELSE <<"Assistant:", " ">> \o Strip(m.content)

RECURSIVE JoinLines(_)
\* "\n".join(lines)
JoinLines(lines) ==
    IF lines = <<>> THEN <<>>
    ELSE IF Len(lines) = 1 THEN lines[1]
    ELSE lines[1] \o <<"\n">> \o JoinLines(Tail(lines))

\* a faulty BuildPrompt: it trusts the re-fetch and does not append the new
\* user text itself
BuildPrompt_NoUserLine(convo, text) ==
    LET prompt_lines == [k \in 1..Len(convo) |-> PromptLine(convo[k])]
    IN  JoinLines(prompt_lines) \o <<"\n", "Assistant:">>

\* lines 123-133 of chat(): the rendered convo, the new user text, the cue
BuildPrompt(convo, text) ==
    LET prompt_lines == [k \in 1..Len(convo) |-> PromptLine(convo[k])]
                            \o << <<"User:", " ">> \o text >>
    IN  JoinLines(prompt_lines) \o <<"\n", "Assistant:">>

\* ------------------------------------------------------------ requests
\* a worker with no request
IdleReq ==
    [pc |-> "idle", op |-> "", payload_session_id |-> None, session_id |-> "",
     text |-> <<>>, history_limit |-> None,
     \* chat() reads its local `history` only through len(history)
     len_history |-> 0, convo |-> <<>>, prompt |-> <<>>, ai_text |-> None,
     resp |-> None,
     \* bookkeeping for the properties, read by no action:
     began |-> 0,      \* rows in the store when the request arrived
     wrote |-> <<>>,   \* ids of the rows the request has inserted, in order
     out |-> None]     \* what the provider returned

\* a request goes to the first free worker
FirstFree(w) == req[w].pc = "idle" /\ \A v \in Workers : v < w => req[v].pc # "idle"

Init ==
    /\ store = <<>>
    /\ clock = 1
    /\ nuuid = 0
    /\ issued = {}
    /\ req = [w \in Workers |-> IdleReq]

\* time passes
Tick ==
    /\ clock < MaxClock
    /\ clock' = clock + 1
    /\ UNCHANGED <<store, nuuid, issued, req>>

\* a faulty StartSession: the id is handed out without the seed greeting
StartSession_NoSeed ==
    /\ nuuid < MaxUuid
    /\ nuuid' = nuuid + 1
    /\ issued' = issued \cup {Uuid(nuuid + 1)}
    /\ UNCHANGED <<store, clock, req>>

\* POST /start-session (lines 93-97)
StartSession ==
    /\ nuuid < MaxUuid
    /\ store' = save_message(store, Uuid(nuuid + 1), "assistant", Greeting, clock)
    /\ nuuid' = nuuid + 1
    /\ issued' = issued \cup {Uuid(nuuid + 1)}
    /\ UNCHANGED <<clock, req>>

\* GET /history/{session_id}?limit= (lines 101-102); limit = None: not given
History(w, session_id, limit) ==
    /\ FirstFree(w)
    /\ LET n == IF limit = None THEN DefaultQueryLimit ELSE Val(limit)
       IN  \E messages \in get_history(store, session_id, n) :
             req' = [req EXCEPT ![w] =
                        [IdleReq EXCEPT !.pc = "done", !.op = "history",
                                        !.session_id = session_id,
                                        !.history_limit = Some(n),
                                        !.began = Len(store),
                                        !.resp = Some([messages |-> messages])]]
    /\ UNCHANGED <<store, clock, nuuid, issued>>

\* a faulty SeedLimit: only None falls back to 10, and 0 is passed on
SeedLimit_ZeroKept(history_limit) ==
    IF history_limit # None THEN Val(history_limit) ELSE DefaultHistoryLimit

\* the limit of the two seeding fetches: payload.history_limit or 10
SeedLimit(history_limit) ==
    IF TruthyInt(history_limit) THEN Val(history_limit) ELSE DefaultHistoryLimit

\* POST /chat arrives.  Line 107: session_id = payload.session_id or uuid4();
\* lines 111-112: history = get_history(...); if len(history) == 0.
\* Line 107 touches nothing shared, so it is one step with the first fetch.
ChatBegin(w, payload_session_id, text, history_limit) ==
    /\ FirstFree(w)
    /\ Truthy(payload_session_id) \/ nuuid < MaxUuid
    /\ LET given == Truthy(payload_session_id)
           sid == IF given THEN Val(payload_session_id) ELSE Uuid(nuuid + 1)
       IN  /\ \E h \in get_history(store, sid, SeedLimit(history_limit)) :
                req' = [req EXCEPT ![w] =
                        [IdleReq EXCEPT !.pc = IF Len(h) = 0 THEN "seed" ELSE "save_user",
                                        !.op = "chat",
                                        !.payload_session_id = payload_session_id,
                                        !.session_id = sid,
                                        !.text = text,
                                        !.history_limit = history_limit,
                                        !.len_history = Len(h),
                                        !.began = Len(store)]]
           /\ nuuid' = IF given THEN nuuid ELSE nuuid + 1
    /\ UNCHANGED <<store, clock, issued>>

\* a faulty ChatSeed: the greeting is not saved
ChatSeed_NoSave(w) ==
    /\ req[w].pc = "seed"
    /\ req' = [req EXCEPT ![w].pc = "refetch"]
    /\ UNCHANGED <<store, clock, nuuid, issued>>

\* line 113: save the greeting
ChatSeed(w) ==
    /\ req[w].pc = "seed"
    /\ store' = save_message(store, req[w].session_id, "assistant", Greeting, clock)
    /\ req' = [req EXCEPT ![w].pc = "refetch",
                          ![w].wrote = Append(@, Len(store) + 1)]
    /\ UNCHANGED <<clock, nuuid, issued>>

\* line 114: history = get_history(...) again
ChatRefetch(w) ==
    /\ req[w].pc = "refetch"
    /\ \E h \in get_history(store, req[w].session_id, SeedLimit(req[w].history_limit)) :
          req' = [req EXCEPT ![w].len_history = Len(h), ![w].pc = "save_user"]
    /\ UNCHANGED <<store, clock, nuuid, issued>>

\* a faulty ChatSaveUser: the user turn is not saved before the provider call
ChatSaveUser_NoSave(w) ==
    /\ req[w].pc = "save_user"
    /\ req' = [req EXCEPT ![w].pc = "fetch"]
    /\ UNCHANGED <<store, clock, nuuid, issued>>

\* line 117: save the user message
ChatSaveUser(w) ==
    /\ req[w].pc = "save_user"
    /\ store' = save_message(store, req[w].session_id, "user", req[w].text, clock)
    /\ req' = [req EXCEPT ![w].pc = "fetch",
                          ![w].wrote = Append(@, Len(store) + 1)]
    /\ UNCHANGED <<clock, nuuid, issued>>

\* a faulty ChatBuildPrompt: of the user turns only the one just saved is
\* kept in the transcript
ChatBuildPrompt_DropsEarlierUsers(w) ==
    /\ req[w].pc = "fetch"
    /\ req[w].history_limit # None
    /\ \E h \in get_history(store, req[w].session_id, Val(req[w].history_limit)) :
          LET Kept(m) == m.role = "assistant" \/ m.id = Len(store)
              c == SelectSeq(h, Kept)
          IN  req' = [req EXCEPT ![w].convo = c,
                                 ![w].prompt = BuildPrompt(c, req[w].text),
                                 ![w].pc = "call"]
    /\ UNCHANGED <<store, clock, nuuid, issued>>

\* lines 122-133 when history_limit is an integer: fetch convo, build prompt
ChatBuildPrompt(w) ==
    /\ req[w].pc = "fetch"
    /\ req[w].history_limit # None
    /\ \E c \in get_history(store, req[w].session_id, Val(req[w].history_limit)) :
          req' = [req EXCEPT ![w].convo = c,
                             ![w].prompt = BuildPrompt(c, req[w].text),
                             ![w].pc = "call"]
    /\ UNCHANGED <<store, clock, nuuid, issued>>

\* line 122 when history_limit is None: `limit * 2` raises TypeError inside
\* get_history, nothing catches it and the request ends in an error
ChatLimitTypeError(w) ==
    /\ req[w].pc = "fetch"
    /\ req[w].history_limit = None
    /\ req' = [req EXCEPT ![w].pc = "error", ![w].len_history = 0]
    /\ UNCHANGED <<store, clock, nuuid, issued>>

\* lines 138-144: the provider returns ai_text
ProviderReturn(w, text) ==
    /\ req[w].pc = "call"
    /\ req' = [req EXCEPT ![w].ai_text = Some(text), ![w].out = Some(text),
                          ![w].pc = "save_reply"]
    /\ UNCHANGED <<store, clock, nuuid, issued>>

\* a faulty ProviderRaise: the error text is saved as the assistant's reply
\* before the request fails
ProviderRaise_SavesError(w) ==
    /\ req[w].pc = "call"
    /\ store' = save_message(store, req[w].session_id, "assistant",
                             <<"Model error">>, clock)
    /\ req' = [req EXCEPT ![w].pc = "failed", ![w].len_history = 0,
                          ![w].convo = <<>>, ![w].prompt = <<>>]
    /\ UNCHANGED <<clock, nuuid, issued>>

\* lines 145-146: the provider raises; chat raises HTTPException(500)
ProviderRaise(w) ==
    /\ req[w].pc = "call"
    /\ req' = [req EXCEPT ![w].pc = "failed", ![w].len_history = 0,
                          ![w].convo = <<>>, ![w].prompt = <<>>]
    /\ UNCHANGED <<store, clock, nuuid, issued>>

\* lines 149-151: save the assistant message and return
ChatSaveReply(w) ==
    /\ req[w].pc = "save_reply"
    /\ store' = save_message(store, req[w].session_id, "assistant",
                             Val(req[w].ai_text), clock)
    /\ req' = [req EXCEPT ![w].pc = "done",
                          ![w].wrote = Append(@, Len(store) + 1),
                          ![w].resp = Some([session_id |-> req[w].session_id,
                                            reply |-> Val(req[w].ai_text)]),
                          ![w].len_history = 0, ![w].convo = <<>>,
                          ![w].prompt = <<>>, ![w].ai_text = None]
    /\ issued' = issued \cup {req[w].session_id}
    /\ UNCHANGED <<clock, nuuid>>

\* the response (or the error) has gone out and the handler's frame is gone
Respond(w) ==
    /\ req[w].pc \in {"done", "failed", "error"}
    /\ req' = [req EXCEPT ![w] = IdleReq]
    /\ UNCHANGED <<store, clock, nuuid, issued>>

\* a step of a /chat request being handled
ChatStep(w) ==
    \/ ChatSeed(w)
    \/ ChatRefetch(w)
    \/ ChatSaveUser(w)
    \/ ChatBuildPrompt(w)
    \/ ChatLimitTypeError(w)
    \/ \E t \in ProviderTexts : ProviderReturn(w, t)
    \/ ProviderRaise(w)
    \/ ChatSaveReply(w)

\* a step of a /chat request whose history_limit is an integer
IntChatStep(w) ==
    \/ ChatSeed(w)
    \/ ChatRefetch(w)
    \/ ChatSaveUser(w)
    \/ ChatBuildPrompt(w)
    \/ \E t \in ProviderTexts : ProviderReturn(w, t)
    \/ ProviderRaise(w)
    \/ ChatSaveReply(w)

\* the optional session ids a client can send, given the strings of its own
Sendable(ids) == {None} \cup {Some(x) : x \in ids \cup issued}

\* the requests a client can make of worker w
Arrive(w, ids, texts, limits, qlimits) ==
    \/ \E s \in ids \cup issued, l \in qlimits : History(w, s, l)
    \/ \E s \in Sendable(ids), t \in texts, l \in limits : ChatBegin(w, s, t, l)

\* the server handles one request at a time
Next ==
    \/ Tick
    \/ Len(store) < MaxStore /\ StartSession
    \/ Len(store) < MaxStore /\ Arrive(1, ClientIds, Texts, HistoryLimits, QueryLimits)
    \/ ChatStep(1)
    \/ Respond(1)

Spec == Init /\ [][Next]_vars

\* one request per worker arrives within one second, and the two are handled
\* concurrently; a session is started only while no id has been handed out
NextConc ==
    \/ issued = {} /\ StartSession
    \/ \E w \in Workers :
          Arrive(w, ConcurrentIds, ConcurrentTexts, ConcurrentLimits, ConcurrentQueryLimits)
    \/ \E w \in Workers : ChatStep(w)

SpecConc == Init /\ [][NextConc]_vars

\* the server handles one request at a time and every chat request carries
\* an integer history_limit, so that a request that ends without a reply has
\* failed at the provider call
NextRetry ==
    \/ Tick
    \/ Len(store) < MaxStore /\ StartSession
    \/ Len(store) < MaxStore /\ Arrive(1, RetryIds, Texts, RetryLimits, RetryQueryLimits)
    \/ IntChatStep(1)
    \/ Respond(1)

SpecRetry == Init /\ [][NextRetry]_vars

\* ================================================================ claims
\* the rowids of session s among the first n rows of the store
RowsUpTo(s, n) == {i \in SessionRows(store, s) : i <= n}

\* the rowids of session s inserted after the first n rows
RowsAfter(s, n) == {i \in SessionRows(store, s) : i > n}

\* the elements of a set of numbers in increasing order
RECURSIVE Ascending(_)
Ascending(S) ==
    IF S = {} THEN <<>>
    ELSE LET m == CHOOSE x \in S : \A y \in S : x <= y
         IN  <<m>> \o Ascending(S \ {m})

\* the ids of the rows of a get_history result
Ids(messages) == {messages[k].id : k \in 1..Len(messages)}

\* worker w holds the response of GET /history
HistoryDone(w) == req[w].op = "history" /\ req[w].pc = "done"

Messages(w) == Val(req[w].resp).messages

\* row i is the seed greeting of session s
IsGreeting(i, s) ==
    /\ store[i].session_id = s
    /\ store[i].role = "assistant"
    /\ store[i].content = Greeting

\* row i is a user turn of session s with the given text
IsUserTurn(i, s, text) ==
    /\ store[i].session_id = s
    /\ store[i].role = "user"
    /\ store[i].content = text

\* row i is an assistant turn of session s with the given text
IsReply(i, s, text) ==
    /\ store[i].session_id = s
    /\ store[i].role = "assistant"
    /\ store[i].content = text

\* C1: get_history(session_id, N) with N >= 1 returns at most N turns, and
\* when the session holds at least N turns it returns exactly the N turns
\* with the greatest created_at, oldest first.
C1_WindowBound ==
    \A w \in Workers :
        (HistoryDone(w) /\ Val(req[w].history_limit) >= 1) =>
            LET N == Val(req[w].history_limit)
                T == RowsUpTo(req[w].session_id, req[w].began)
                m == Messages(w)
            IN  /\ Len(m) <= N
                /\ Cardinality(T) >= N =>
                      /\ Len(m) = N
                      /\ Cardinality(Ids(m)) = N
                      /\ Ids(m) \subseteq T
                      /\ \A k \in 1..(Len(m) - 1) : m[k].created_at <= m[k + 1].created_at
                      /\ \A i \in T \ Ids(m) : \A k \in 1..Len(m) :
                            store[i].created_at <= m[k].created_at

\* C2: when the provider call of a chat request fails, the session then
\* holds the request's user turn, and the only turns the request added are
\* the optional seed greeting and that user turn: no assistant reply.
C2_FailureLeavesNoReply ==
    \A w \in Workers :
        req[w].pc = "failed" =>
            LET s == req[w].session_id
                new == Ascending(RowsAfter(s, req[w].began))
            IN  /\ Len(new) \in {1, 2}
                /\ IsUserTurn(new[Len(new)], s, req[w].text)
                /\ Len(new) = 2 => IsGreeting(new[1], s)
                /\ Len(new) = 2 => RowsUpTo(s, req[w].began) = {}

C2_Witness ==
    \E w \in Workers :
        /\ req[w].pc = "failed"
        /\ RowsUpTo(req[w].session_id, req[w].began) # {}
        /\ Cardinality(RowsAfter(req[w].session_id, req[w].began)) = 1

\* C3: the seeding step of a chat request that runs alone, for every
\* history_limit (0, negative and None included): on a session that already
\* has a turn it writes nothing; on a session without turns it writes exactly
\* one turn, the assistant greeting.
C3_SeedIdempotent ==
    \A w \in Workers :
        (req[w].op = "chat" /\ req[w].pc = "save_user") =>
            LET s == req[w].session_id
                new == RowsAfter(s, req[w].began)
            IN  IF RowsUpTo(s, req[w].began) # {}
                THEN new = {}
                ELSE /\ Cardinality(new) = 1
                     /\ \A i \in new : IsGreeting(i, s)

C3_Witness ==
    \E w \in Workers :
        /\ req[w].op = "chat"
        /\ req[w].pc = "save_user"
        /\ req[w].history_limit = Some(0)
        /\ RowsUpTo(req[w].session_id, req[w].began) # {}
        /\ RowsAfter(req[w].session_id, req[w].began) = {}

\* C4: get_history with a limit at least the number of stored turns returns
\* every stored turn of the session exactly once, in the order in which the
\* turns were created, whatever their created_at values.
C4_CreationOrder ==
    \A w \in Workers :
        LET T == RowsUpTo(req[w].session_id, req[w].began)
        IN  (HistoryDone(w) /\ Val(req[w].history_limit) >= Cardinality(T)) =>
                /\ Len(Messages(w)) = Cardinality(T)
                /\ \A k \in 1..Len(Messages(w)) : Messages(w)[k].id = Ascending(T)[k]

\* the stored turns of session s
Turns(st, s) == {st[i] : i \in SessionRows(st, s)}

\* the session ids with a row in the store
StoredSessions(st) == {st[i].session_id : i \in 1..Len(st)}

\* C5: a turn once stored is never changed or removed: in every step, for
\* each session, the stored set of turns is a superset of what it was.
C5_AppendOnly ==
    [][\A s \in StoredSessions(store) : Turns(store, s) \subseteq Turns(store', s)]_vars

C5_Witness ==
    /\ \A w \in Workers : req[w].op = "chat" /\ req[w].pc = "done"
    /\ req[1].session_id = req[2].session_id
    /\ Cardinality(SessionRows(store, req[1].session_id)) >= 5

\* C6: get_history(session_id, limit) with limit <= 0 returns the empty
\* sequence, however many turns the session holds.
C6_NonPositiveLimitEmpty ==
    \A w \in Workers :
        (HistoryDone(w) /\ Val(req[w].history_limit) <= 0) => Messages(w) = <<>>

\* the turns of a fetched transcript that were stored before request w began
PriorTurns(w) == {k \in 1..Len(req[w].convo) : req[w].convo[k].id <= req[w].began}

\* C7: a chat request without a session id whose provider call succeeds
\* returns a freshly minted session id and the provider's output as reply,
\* and the session then holds exactly three turns, in creation order the
\* seed greeting, the user turn with the request text, the reply.
C7_FreshSessionThreeTurns ==
    \A w \in Workers :
        (req[w].op = "chat" /\ req[w].pc = "done" /\ req[w].payload_session_id = None) =>
            LET r == Val(req[w].resp)
                rows == Ascending(SessionRows(store, r.session_id))
            IN  /\ r.session_id \notin ClientIds
                /\ RowsUpTo(r.session_id, req[w].began) = {}
                /\ r.reply = Val(req[w].out)
                /\ Len(rows) = 3
                /\ IsGreeting(rows[1], r.session_id)
                /\ IsUserTurn(rows[2], r.session_id, req[w].text)
                /\ IsReply(rows[3], r.session_id, r.reply)

C7_Witness ==
    \E w \in Workers :
        /\ req[w].op = "chat"
        /\ req[w].pc = "done"
        /\ req[w].payload_session_id = None
        /\ Cardinality(SessionRows(store, req[w].session_id)) = 3

\* C8: in a chat request with history_limit = N >= 1 on a session that
\* already holds more than N turns, the transcript fetched for the prompt
\* contains at most N turns stored before the request began.
C8_PromptWindowBound ==
    \A w \in Workers :
        (/\ req[w].op = "chat"
         /\ req[w].pc = "call"
         /\ req[w].history_limit # None
         /\ Val(req[w].history_limit) >= 1
         /\ Cardinality(RowsUpTo(req[w].session_id, req[w].began)) > Val(req[w].history_limit))
        => Cardinality(PriorTurns(w)) <= Val(req[w].history_limit)

\* the last row a request has inserted
LastWrote(w) == req[w].wrote[Len(req[w].wrote)]

\* C9: two chat requests with distinct texts on the same session id in the
\* same second, both provider calls succeeding: under every interleaving
\* neither fails, and once both have returned the store holds both user
\* turns and both assistant replies, each in a row of its own.
C9_ConcurrentChatsBothPersist ==
    \A v, w \in Workers :
        (/\ v # w
         /\ req[v].op = "chat" /\ req[w].op = "chat"
         /\ req[v].session_id = req[w].session_id
         /\ req[v].text # req[w].text
         /\ req[v].out # None /\ req[w].out # None)
        => /\ req[v].pc \in {"save_reply", "done"}
           /\ (req[v].pc = "done" /\ req[w].pc = "done") =>
                 \E uv, uw, av, aw \in SessionRows(store, req[v].session_id) :
                    /\ Cardinality({uv, uw, av, aw}) = 4
                    /\ IsUserTurn(uv, req[v].session_id, req[v].text)
                    /\ IsUserTurn(uw, req[v].session_id, req[w].text)
                    /\ IsReply(av, req[v].session_id, Val(req[v].out))
                    /\ IsReply(aw, req[v].session_id, Val(req[w].out))
                    /\ Val(req[v].resp).reply = Val(req[v].out)

C9_Witness ==
    /\ req[1].op = "chat" /\ req[2].op = "chat"
    /\ req[1].pc = "done" /\ req[2].pc = "done"
    /\ req[1].session_id = req[2].session_id
    /\ req[1].text # req[2].text
    /\ req[2].began < req[1].wrote[1]
    /\ req[2].wrote[1] < LastWrote(1)
    /\ LastWrote(1) < LastWrote(2)

RECURSIVE SplitLines(_)
\* the lines of a text, split at its "\n" tokens
SplitLines(t) ==
    IF \A k \in 1..Len(t) : t[k] # "\n" THEN <<t>>
    ELSE LET n == CHOOSE k \in 1..Len(t) : t[k] = "\n" /\ \A j \in 1..(k - 1) : t[j] # "\n"
         IN  <<SubSeq(t, 1, n - 1)>> \o SplitLines(SubSeq(t, n + 1, Len(t)))

\* t is c without its leading and trailing whitespace
IsTrimOf(t, c) ==
    \E i \in 0..Len(c), j \in 0..Len(c) :
        /\ i + j <= Len(c)
        /\ t = SubSeq(c, i + 1, Len(c) - j)
        /\ \A k \in 1..i : IsSpace(c[k])
        /\ \A k \in (Len(c) - j + 1)..Len(c) : IsSpace(c[k])
        /\ t # <<>> => ~IsSpace(t[1]) /\ ~IsSpace(t[Len(t)])

\* the label the prompt gives a role
RoleLabel(role) == IF role = "user" THEN "User:" ELSE "Assistant:"

\* C10: the prompt sent to the provider is the re-fetched turns in
\* transcript order, each as "User: <trimmed content>" or
\* "Assistant: <trimmed content>", then "User: <new user text>", then the
\* bare cue line "Assistant:", for every history_limit.
C10_PromptShape ==
    \A w \in Workers :
        req[w].pc \in {"call", "save_reply"} =>
            LET lines == SplitLines(req[w].prompt)
                convo == req[w].convo
                n == Len(convo)
            IN  /\ Len(lines) = n + 2
                /\ \A k \in 1..n :
                      /\ Len(lines[k]) >= 2
                      /\ lines[k][1] = RoleLabel(convo[k].role)
                      /\ lines[k][2] = " "
                      /\ IsTrimOf(SubSeq(lines[k], 3, Len(lines[k])), convo[k].content)
                /\ lines[n + 1] = <<"User:", " ">> \o req[w].text
                /\ lines[n + 2] = <<"Assistant:">>

C10_Witness ==
    \E w \in Workers :
        /\ req[w].pc = "call"
        /\ Len(req[w].convo) >= 3
        /\ \E k \in 1..Len(req[w].convo) :
              /\ req[w].convo[k].role = "user"
              /\ req[w].convo[k].content = req[w].text
              /\ Strip(req[w].text) # req[w].text
        /\ \E k \in 1..Len(req[w].convo) : req[w].convo[k].role = "assistant"

\* C11: in every chat request, for every history_limit, the transcript
\* re-fetched after the user turn is saved and rendered into the prompt holds
\* at least one stored turn.
C11_PromptHasContext ==
    \A w \in Workers :
        (req[w].op = "chat" /\ req[w].pc = "call") => Len(req[w].convo) >= 1

\* the rows of session s among the first n that are user turns
UserRowsUpTo(s, n) == {i \in RowsUpTo(s, n) : store[i].role = "user"}

\* C12: after start_session has returned a session id and before any chat
\* on it, get_history of that id (default or any positive limit) returns
\* exactly one turn, the assistant greeting; an id handed out is never
\* without turns.
C12_StartedSessionHasGreeting ==
    /\ \A s \in issued : SessionRows(store, s) # {}
    /\ \A w \in Workers :
          (/\ HistoryDone(w)
           /\ req[w].session_id \in issued
           /\ UserRowsUpTo(req[w].session_id, req[w].began) = {}
           /\ Val(req[w].history_limit) >= 1)
          => /\ Len(Messages(w)) = 1
             /\ Messages(w)[1].role = "assistant"
             /\ Messages(w)[1].content = Greeting

C12_Witness ==
    \E w \in Workers :
        /\ HistoryDone(w)
        /\ req[w].session_id \in issued
        /\ UserRowsUpTo(req[w].session_id, req[w].began) = {}
        /\ Val(req[w].history_limit) = DefaultQueryLimit
        /\ Len(Messages(w)) = 1

\* the rows a chat request handled alone has added to its session
NewRows(w) ==
    {i \in (req[w].began + 1)..Len(store) : store[i].session_id = req[w].session_id}

\* the seed greeting among them: the first one, when the session was empty
SeedRows(w) ==
    {i \in NewRows(w) : /\ IsGreeting(i, req[w].session_id)
                        /\ \A j \in NewRows(w) : i <= j
                        /\ RowsUpTo(req[w].session_id, req[w].began) = {}}

UserRows(w) == {i \in NewRows(w) : store[i].role = "user"}

ReplyRows(w) == {i \in NewRows(w) \ SeedRows(w) : store[i].role = "assistant"}

\* C13: within one chat request the user turn is persisted before the
\* provider is called, the assistant reply is persisted only after the
\* provider has returned, a request that ends with its reply saved has
\* written exactly one user turn and one reply, and a request is always at
\* one of the steps of chat(), none of whose store writes can be refused,
\* until it has ended in reply-saved or failed.
C13_ChatLifecycle ==
    \A w \in Workers :
        req[w].op = "chat" =>
            LET users == UserRows(w)
                replies == ReplyRows(w)
            IN  /\ req[w].pc \in {"call", "save_reply"} =>
                      /\ Cardinality(users) = 1
                      /\ \A i \in users : store[i].content = req[w].text
                      /\ replies = {}
                /\ replies # {} => (req[w].pc = "done" /\ req[w].out # None)
                /\ req[w].pc = "done" =>
                      /\ Cardinality(users) = 1
                      /\ Cardinality(replies) = 1
                      /\ \A i \in users : \A j \in replies :
                            /\ i < j
                            /\ store[i].content = req[w].text
                            /\ store[j].content = Val(req[w].out)
                /\ req[w].pc \in {"failed", "error"} => replies = {}
                /\ req[w].pc \in {"seed", "refetch", "save_user", "fetch", "call",
                                  "save_reply", "done", "failed", "error"}
                /\ req[w].pc = "seed" => ENABLED ChatSeed(w)
                /\ req[w].pc = "save_user" => ENABLED ChatSaveUser(w)
                /\ (req[w].pc = "fetch" /\ req[w].history_limit = None) =>
                      ENABLED ChatLimitTypeError(w)
                /\ req[w].pc = "call" => ENABLED ProviderRaise(w)
                /\ req[w].pc = "save_reply" => ENABLED ChatSaveReply(w)

C13_Witness ==
    \E w \in Workers :
        /\ req[w].op = "chat"
        /\ req[w].pc = "done"
        /\ RowsUpTo(req[w].session_id, req[w].began) # {}
        /\ Cardinality(UserRows(w)) = 1
        /\ Cardinality(ReplyRows(w)) = 1

\* the seed greetings stored in session s
Greetings(st, s) == {i \in SessionRows(st, s) : st[i].role = "assistant" /\ st[i].content = Greeting}

\* C14: under every interleaving of concurrent chat requests to the same,
\* previously empty, session id exactly one seed greeting is written.
C14_OneSeedUnderRace ==
    \A s \in StoredSessions(store) : Cardinality(Greetings(store, s)) = 1

\* the first row written to session s
FirstRow(st, s) == CHOOSE i \in SessionRows(st, s) : \A j \in SessionRows(st, s) : i <= j

\* C15: under any interleaving of start_session and chat requests, the
\* first turn written to any non-empty session is the assistant greeting,
\* never a user turn or a provider reply.
C15_FirstTurnIsGreeting ==
    \A s \in StoredSessions(store) : IsGreeting(FirstRow(store, s), s)

C15_Witness ==
    \E s \in StoredSessions(store) :
        /\ \A w \in Workers : req[w].op = "chat" /\ req[w].session_id = s
        /\ \E i \in SessionRows(store, s) : store[i].role = "user"
        /\ \E i \in SessionRows(store, s) : IsReply(i, s, <<"r">>)
        /\ IsGreeting(FirstRow(store, s), s)

\* the user turns of its session that chat request w found stored without
\* a reply: the next turn of the session, if any, was not an assistant turn.
\* With one request at a time, each with an integer history_limit, these are
\* the user turns of the requests that failed at the provider call.
Dangling(w) ==
    LET T == RowsUpTo(req[w].session_id, req[w].began)
    IN  {i \in T : /\ store[i].role = "user"
                   /\ \A j \in T : (j > i /\ \A k \in T : ~(i < k /\ k < j))
                                      => store[j].role = "user"}

\* chat request w carries a history_limit at least the number of turns its
\* session holds, its own user turn included
CoversSession(w) ==
    /\ req[w].op = "chat"
    /\ req[w].history_limit # None
    /\ Val(req[w].history_limit) >=
          Cardinality(RowsUpTo(req[w].session_id, req[w].began)) + 1

\* the last row written to session s
LastRow(st, s) == CHOOSE i \in SessionRows(st, s) : \A j \in SessionRows(st, s) : j <= i

\* C16: after a chat request failed at the provider call, the next chat on
\* the same session whose history_limit is at least the number of stored
\* turns renders the dangling user turn into its prompt, and once its own
\* provider call has returned it saves the reply and answers normally.
C16_DanglingTurnIsContext ==
    \A w \in Workers :
        (CoversSession(w) /\ Dangling(w) # {}) =>
            /\ req[w].pc \in {"call", "save_reply"} =>
                  \A i \in Dangling(w) :
                      \E k \in 1..Len(req[w].convo) :
                          /\ req[w].convo[k].id = i
                          /\ SplitLines(req[w].prompt)[k] =
                                <<"User:", " ">> \o Strip(store[i].content)
            /\ req[w].pc = "save_reply" => ENABLED ChatSaveReply(w)
            /\ req[w].out # None => req[w].pc \in {"save_reply", "done"}
            /\ req[w].pc = "done" =>
                  /\ req[w].resp = Some([session_id |-> req[w].session_id,
                                          reply |-> Val(req[w].out)])
                  /\ IsReply(LastRow(store, req[w].session_id), req[w].session_id,
                             Val(req[w].out))

C16_Witness ==
    \E w \in Workers :
        /\ CoversSession(w)
        /\ Dangling(w) # {}
        /\ req[w].pc = "done"
        /\ IsReply(LastRow(store, req[w].session_id), req[w].session_id, Val(req[w].out))

\* the step is one of start_session or of a chat request addressing session s
Addresses(s) ==
    \/ /\ req' = req
       /\ nuuid' = nuuid + 1
       /\ s = Uuid(nuuid')
    \/ \E w \in Workers :
          /\ req'[w] # req[w]
          /\ req'[w].op = "chat"
          /\ req'[w].session_id = s

\* every turn a request holds from get_history is a stored row of the
\* session the request addresses
FetchedOwn ==
    \A w \in Workers :
        LET fetched == IF HistoryDone(w) THEN Messages(w) ELSE req[w].convo
        IN  \A k \in 1..Len(fetched) :
                /\ fetched[k].id \in SessionRows(store, req[w].session_id)
                /\ fetched[k] = Item(store, fetched[k].id)

\* C17: every step of start_session and of chat leaves the stored turns of
\* every session other than the one it addresses unchanged, and get_history
\* returns only turns stored under the session id it was called with.
C17_SessionFrame ==
    [][/\ \A s \in StoredSessions(store') :
             Turns(store', s) # Turns(store, s) => Addresses(s)
       /\ FetchedOwn']_vars

C17_Witness ==
    \E w \in Workers, s \in StoredSessions(store) :
        /\ req[w].op = "chat"
        /\ req[w].pc = "done"
        /\ s # req[w].session_id
        /\ \E v \in Workers :
              /\ req[v].session_id = s
              /\ Len(req[v].convo) >= 2

\* C18: when the caller supplies a session id, whatever string it is, chat
\* works on exactly that id: the turns it stores carry it and the response
\* returns it; an id is minted only when the session id is absent.
C18_SuppliedIdKept ==
    \A w \in Workers :
        (req[w].op = "chat" /\ req[w].payload_session_id # None) =>
            /\ req[w].session_id = Val(req[w].payload_session_id)
            /\ \A k \in 1..Len(req[w].wrote) :
                  store[req[w].wrote[k]].session_id = Val(req[w].payload_session_id)
            /\ req[w].pc = "done" =>
                  Val(req[w].resp).session_id = Val(req[w].payload_session_id)

====
